---- MODULE Spec2Model ----
(***************************************************************************)
(* State-machine model of run.py (MultiOperationsScript): one process      *)
(* invocation parses its arguments, provisions a database, inspects a      *)
(* host over SSH and, unless the recursion flag is present, talks to a     *)
(* Windows host over WinRM and dispatches a self-invocation command.       *)
(*                                                                         *)
(* Text is modelled as a sequence of atoms: an atom is a piece of text     *)
(* that neither contains nor helps to form the recursion flag, or the      *)
(* recursion flag itself, or a single blank.  Concatenation is \o.         *)
(***************************************************************************)
EXTENDS Integers, Sequences, FiniteSets, TLC

VARIABLES
    argv,                     \* sys.argv of the running process; argv[1] is Python's sys.argv[0]
    prevent_winrm_recursion,  \* self.prevent_winrm_recursion
    pc,                       \* position of the process in __init__ / run
    exitStatus,               \* process exit status, -1 while the process runs
    failed,                   \* the step whose exception ended the run, "none" otherwise
    secret,                   \* what the provisioning stage got from the secret store (its local
                              \* credentials), kind "none" before the lookup and after the stage returned
    credentials,              \* the username and password taken from the secret for the database login
    db_name,                  \* timestamp suffix of ExampleDB_<int(time.time())>, -1 before step 3
    dbOpen,                   \* number of pymssql connections opened and not closed
    txn,                      \* rows inserted on the open connection and not yet committed
    rows,                     \* result of cursor.fetchall()
    ssh_client,               \* "none", "open" or "closed"
    sshEmpty,                 \* SSH commands of this run that returned empty output
    warnings,                 \* logger.warning calls of this run, per stage
    log,                      \* remote calls attempted by this run, in order
    keyFile,                  \* os.path.isfile(args.ssh_key_path)
    dispatched,               \* the texts built for session.run_ps(ps_script), per Dispatch of the chain
    now,                      \* last value read from int(time.time())
    server,                   \* the database server: per database name, its objects and rows
    provisioned,              \* the server as the provisioning stage of this run left it
    runs                      \* process invocations started so far

vars == <<argv, prevent_winrm_recursion, pc, exitStatus, failed, secret, credentials,
          db_name, dbOpen, txn, rows, ssh_client, sshEmpty, warnings, log,
          keyFile, dispatched, now, server, provisioned, runs>>

cfgVars == <<argv, prevent_winrm_recursion, keyFile, runs>>
sqlVars == <<secret, credentials, db_name, dbOpen, txn, rows, now, server, provisioned>>
sshVars == <<ssh_client, sshEmpty>>

----------------------------------------------------------------------------
(* Bounds of the model *)

MaxRuns == 2    \* process invocations per behaviour
MaxTime == 1    \* clock readings range over 0..MaxTime seconds

----------------------------------------------------------------------------
(* Text *)

RECURSION_FLAG == "--no-winrm-recursion"

BLANK == " "

\* Number of occurrences of the recursion flag in a text.
RECURSIVE CountFlag(_)
CountFlag(s) ==
    IF s = <<>> THEN 0
    ELSE (IF Head(s) = RECURSION_FLAG THEN 1 ELSE 0) + CountFlag(Tail(s))

\* " ".join(args)
RECURSIVE Join(_)
Join(args) ==
    IF args = <<>> THEN <<>>
    ELSE IF Len(args) = 1 THEN args[1]
    ELSE args[1] \o <<BLANK>> \o Join(Tail(args))

\* Word splitting done by the shell that receives a command line: the words
\* are the maximal blank-free stretches of the text.
RECURSIVE SplitWords(_, _)
SplitWords(s, cur) ==
    IF s = <<>> THEN (IF cur = <<>> THEN <<>> ELSE <<cur>>)
    ELSE IF Head(s) = BLANK
         THEN (IF cur = <<>> THEN <<>> ELSE <<cur>>) \o SplitWords(Tail(s), <<>>)
         ELSE SplitWords(Tail(s), Append(cur, Head(s)))

----------------------------------------------------------------------------
(* Command line *)

\* Options add_argument declares with required=True.
RequiredOptions ==
    {"--mssql-url", "--aws-secret-name", "--ssh-host", "--ssh-user",
     "--ssh-key-path", "--winrm-host", "--winrm-user", "--winrm-password"}

\* Options taking a value.
ValueOptions == RequiredOptions \cup {"--aws-region", "--winrm-port"}

\* Options taking no value (action="store_true").
FlagOptions == {"--winrm-use-ssl"}

\* One argv element "--option=value".
Opt(name, value) == <<name, "=">> \o value

IsValueOpt(a) == Len(a) >= 2 /\ a[1] \in ValueOptions /\ a[2] = "="

IsFlagOpt(a) == Len(a) = 1 /\ a[1] \in FlagOptions

\* parser.parse_args(): TRUE when sys.argv[1:] is accepted.  An element that
\* is no declared option is an unrecognized argument, a required option that
\* is absent is an error; both end the process with status 2.
ParseArgs(av) ==
    /\ \A i \in 2..Len(av) : IsValueOpt(av[i]) \/ IsFlagOpt(av[i])
    /\ \A o \in RequiredOptions : \E i \in 2..Len(av) : IsValueOpt(av[i]) /\ av[i][1] = o

\* RECURSION_FLAG in sys.argv
FlagInArgv(av) == \E i \in 1..Len(av) : av[i] = <<RECURSION_FLAG>>

\* Command lines of the model: a script name, the required options (all of
\* them, or all but the first) and at most one more argument.
AllRequired ==
    << Opt("--mssql-url", <<"sqlserver://db:1433">>),
       Opt("--aws-secret-name", <<"secret">>),
       Opt("--ssh-host", <<"10.0.0.1">>),
       Opt("--ssh-user", <<"user">>),
       Opt("--ssh-key-path", <<"id_rsa">>),
       Opt("--winrm-host", <<"10.0.0.2">>),
       Opt("--winrm-user", <<"admin">>),
       Opt("--winrm-password", <<"pw">>) >>

ScriptNames == { <<"run.py">>, <<RECURSION_FLAG>> }

ExtraArgs ==
    { <<RECURSION_FLAG>>,
      <<"--winrm-use-ssl">>,
      Opt("--aws-region", <<RECURSION_FLAG>>),
      Opt("--aws-region", <<"eu", BLANK, RECURSION_FLAG>>),
      <<"--bogus">> }

CommandLines ==
    { <<name>> \o base \o extra :
        name \in ScriptNames,
        base \in { AllRequired, Tail(AllRequired) },
        extra \in { <<>> } \cup { <<x>> : x \in ExtraArgs } }

----------------------------------------------------------------------------
(* Environment: secret store and database server *)

\* What client.get_secret_value and json.loads can give: the call raises
\* ("error"), the response has no SecretString so the method returns None
\* ("binary"), the SecretString is no JSON ("badjson"), it is a JSON object
\* with the given fields ("object"), or it is a JSON string ("text") or a JSON
\* array ("list") in which the given field names occur.
SecretFields == [ username : {"sa"}, password : {"pw1"}, host : {"db"} ]

Restrict(f, S) == [ k \in S |-> f[k] ]

SecretResponses ==
    { [kind |-> k, data |-> <<>>] : k \in {"error", "binary", "badjson"} }
    \cup { [kind |-> k, data |-> Restrict(f, S)] :
             k \in {"object", "text", "list"},
             f \in SecretFields, S \in SUBSET {"username", "password", "host"} }

\* No secret has been looked up.
NoSecret == [kind |-> "none", data |-> <<>>]

\* The three tuples of sample_data, by position.
SampleItems == 1..3

NoDatabase ==
    [exists |-> FALSE, schema |-> FALSE, table |-> FALSE, rows |-> <<>>, ident |-> 1]

DbNames == 0..MaxTime

----------------------------------------------------------------------------
(* The log of remote calls *)

Ev(kind, n) == [ev |-> kind, n |-> n]

CountEv(l, kind) == Cardinality({ i \in 1..Len(l) : l[i].ev = kind })

HasEv(l, kind) == \E i \in 1..Len(l) : l[i].ev = kind

----------------------------------------------------------------------------
(* Process start *)

ProcStart(av, kf) ==
    /\ argv = av
    /\ keyFile = kf
    /\ prevent_winrm_recursion = FALSE
    /\ pc = "init"
    /\ exitStatus = -1
    /\ failed = "none"
    /\ secret = NoSecret
    /\ credentials = <<>>
    /\ db_name = -1
    /\ dbOpen = 0
    /\ txn = <<>>
    /\ rows = <<>>
    /\ ssh_client = "none"
    /\ sshEmpty = 0
    /\ warnings = [ssh |-> 0, winrm |-> 0]
    /\ log = <<>>

Init ==
    /\ \E av \in CommandLines, kf \in BOOLEAN : ProcStart(av, kf)
    /\ dispatched = <<>>
    /\ now = 0
    /\ server = [d \in DbNames |-> NoDatabase]
    /\ provisioned = [d \in DbNames |-> NoDatabase]
    /\ runs = 1

Goto(label) == pc' = label /\ UNCHANGED <<exitStatus, failed>>

\* sys.exit(code), also the end of the script (code 0).
Exit(code) == pc' = "done" /\ exitStatus' = code

\* Variant of RunExcept: the handler ends the process with status 0.
RunExcept_exitZero == Exit(0)

\* run: except Exception -> logger.error, sys.exit(1)
RunExcept == Exit(1)

\* run: "All operations completed successfully", the script ends.
RunSuccess == Exit(0) /\ failed' = failed

\* __init__: parse_args, then the recursion flag is looked up in sys.argv.
Construct ==
    /\ pc = "init"
    /\ IF ParseArgs(argv)
       THEN /\ prevent_winrm_recursion' = FlagInArgv(argv)
            /\ Goto("mssql_secret")
       ELSE /\ Exit(2)
            /\ UNCHANGED <<prevent_winrm_recursion, failed>>
    /\ UNCHANGED <<argv, keyFile, runs, sqlVars, sshVars, warnings, log, dispatched>>

----------------------------------------------------------------------------
(* 1. MS SQL operations *)

\* Variant of MssqlExcept: the handler logs and does not re-raise, so run
\* goes on with the SSH stage.
MssqlExcept_swallow(step) ==
    failed' = step /\ pc' = "ssh_keycheck" /\ exitStatus' = exitStatus

\* _perform_mssql_operations: except Exception -> logger.error, raise; the
\* exception reaches run's handler.
MssqlExcept(step) == failed' = step /\ RunExcept

\* all(key in credentials for key in ['username', 'password']): for an
\* object the test is on its keys, for a string on its substrings, for an
\* array on its elements.
KeysPresent(resp) == \A key \in {"username", "password"} : key \in DOMAIN resp.data

\* The secret gives a username and a password: _get_aws_secret returns (the
\* call and the JSON parse succeed), the value is not None (on which the key
\* test raises TypeError), the key test passes, and the value can be
\* subscripted by the two keys (a string or an array raises TypeError).
SecretOk(resp) ==
    /\ resp.kind \notin {"error", "badjson"}
    /\ resp.kind # "binary"
    /\ KeysPresent(resp)
    /\ resp.kind = "object"

\* Variant of Cred: the two fields are taken in the wrong order.
Cred_swapped(resp) == <<resp.data["password"], resp.data["username"]>>

\* username = credentials['username'], password = credentials['password']
Cred(resp) == <<resp.data["username"], resp.data["password"]>>

\* Step 1: the secret lookup, the check of its keys and the two subscripts.
MssqlGetSecret ==
    /\ pc = "mssql_secret"
    /\ log' = Append(log, Ev("secret", 0))
    /\ \E resp \in SecretResponses :
         /\ secret' = resp
         /\ IF SecretOk(resp)
            THEN /\ credentials' = Cred(resp)
                 /\ Goto("mssql_connect")
            ELSE /\ credentials' = credentials
                 /\ MssqlExcept("mssql_secret")
    /\ UNCHANGED <<cfgVars, db_name, dbOpen, txn, rows, now, server, provisioned,
                   sshVars, warnings, dispatched>>

\* Step 2: pymssql.connect without a database.
MssqlConnect ==
    /\ pc = "mssql_connect"
    /\ log' = Append(log, Ev("db_connect", 0))
    /\ \E ok \in BOOLEAN :
         IF ok
         THEN dbOpen' = dbOpen + 1 /\ Goto("mssql_createdb")
         ELSE dbOpen' = dbOpen /\ MssqlExcept("mssql_connect")
    /\ UNCHANGED <<cfgVars, secret, credentials, db_name, txn, rows, now, server, provisioned,
                   sshVars, warnings, dispatched>>

\* Step 3: the name is taken from the clock, in whole seconds; the database
\* is created unless one of that name exists (autocommit is on).
MssqlCreateDb ==
    /\ pc = "mssql_createdb"
    /\ \E t \in now..MaxTime, ok \in BOOLEAN :
         /\ now' = t
         /\ db_name' = t
         /\ log' = Append(log, Ev("create_db", t))
         /\ IF ok
            THEN /\ server' = [server EXCEPT ![t].exists = TRUE]
                 /\ Goto("mssql_reconnect")
            ELSE /\ server' = server
                 /\ MssqlExcept("mssql_createdb")
    /\ UNCHANGED <<cfgVars, secret, credentials, dbOpen, txn, rows, provisioned,
                   sshVars, warnings, dispatched>>

\* Variant of MssqlReconnect: the server-level connection is not closed
\* before the second connection is opened.
MssqlReconnect_noClose ==
    /\ pc = "mssql_reconnect"
    /\ log' = Append(log, Ev("db_connect", 1))
    /\ \E ok \in BOOLEAN :
         IF ok
         THEN dbOpen' = dbOpen + 1 /\ Goto("mssql_schema")
         ELSE dbOpen' = dbOpen /\ MssqlExcept("mssql_reconnect")
    /\ UNCHANGED <<cfgVars, secret, credentials, db_name, txn, rows, now, server, provisioned,
                   sshVars, warnings, dispatched>>

\* conn.close(), then pymssql.connect selecting the new database.
MssqlReconnect ==
    /\ pc = "mssql_reconnect"
    /\ log' = Append(log, Ev("db_connect", 1))
    /\ \E ok \in BOOLEAN :
         IF ok
         THEN dbOpen' = (dbOpen - 1) + 1 /\ Goto("mssql_schema")
         ELSE dbOpen' = dbOpen - 1 /\ MssqlExcept("mssql_reconnect")
    /\ UNCHANGED <<cfgVars, secret, credentials, db_name, txn, rows, now, server, provisioned,
                   sshVars, warnings, dispatched>>

\* Variant of MssqlCreateSchema: a failure of the statement is passed over
\* and the table is created next.
MssqlCreateSchema_ignoreFailure ==
    /\ pc = "mssql_schema"
    /\ log' = Append(log, Ev("create_schema", 0))
    /\ \E ok \in BOOLEAN :
         /\ server' = IF ok THEN [server EXCEPT ![db_name].schema = TRUE] ELSE server
         /\ Goto("mssql_table")
    /\ UNCHANGED <<cfgVars, secret, credentials, db_name, dbOpen, txn, rows, now, provisioned,
                   sshVars, warnings, dispatched>>

\* Step 4: CREATE SCHEMA unless it exists, conn.commit().
MssqlCreateSchema ==
    /\ pc = "mssql_schema"
    /\ log' = Append(log, Ev("create_schema", 0))
    /\ \E ok \in BOOLEAN :
         IF ok
         THEN /\ server' = [server EXCEPT ![db_name].schema = TRUE]
              /\ Goto("mssql_table")
         ELSE /\ server' = server
              /\ MssqlExcept("mssql_schema")
    /\ UNCHANGED <<cfgVars, secret, credentials, db_name, dbOpen, txn, rows, now, provisioned,
                   sshVars, warnings, dispatched>>

\* Step 5: CREATE TABLE unless it exists, conn.commit().
MssqlCreateTable ==
    /\ pc = "mssql_table"
    /\ log' = Append(log, Ev("create_table", 0))
    /\ \E ok \in BOOLEAN :
         IF ok
         THEN /\ server' = [server EXCEPT ![db_name].table = TRUE]
              /\ Goto("mssql_insert")
         ELSE /\ server' = server
              /\ MssqlExcept("mssql_table")
    /\ UNCHANGED <<cfgVars, secret, credentials, db_name, dbOpen, txn, rows, now, provisioned,
                   sshVars, warnings, dispatched>>

\* Variant of MssqlInsert: the connection commits each INSERT as it executes.
MssqlInsert_autocommit ==
    /\ pc = "mssql_insert"
    /\ LET item == Len(txn) + 1 IN
       /\ log' = Append(log, Ev("insert", item))
       /\ \E ok \in BOOLEAN :
            IF ok
            THEN /\ txn' = Append(txn, [id |-> server[db_name].ident, item |-> item])
                 /\ server' = [server EXCEPT ![db_name].ident = @ + 1,
                                             ![db_name].rows = Append(@, [id |-> server[db_name].ident,
                                                                          item |-> item])]
                 /\ Goto(IF item = Cardinality(SampleItems) THEN "mssql_commit" ELSE "mssql_insert")
            ELSE /\ txn' = txn
                 /\ server' = server
                 /\ MssqlExcept("mssql_insert")
    /\ UNCHANGED <<cfgVars, secret, credentials, db_name, dbOpen, rows, now, provisioned,
                   sshVars, warnings, dispatched>>

\* Step 6, one pass of the loop: INSERT of the next sample row.  The row gets
\* the table's next identity value and stays uncommitted.
MssqlInsert ==
    /\ pc = "mssql_insert"
    /\ LET item == Len(txn) + 1 IN
       /\ log' = Append(log, Ev("insert", item))
       /\ \E ok \in BOOLEAN :
            IF ok
            THEN /\ txn' = Append(txn, [id |-> server[db_name].ident, item |-> item])
                 /\ server' = [server EXCEPT ![db_name].ident = @ + 1]
                 /\ Goto(IF item = Cardinality(SampleItems) THEN "mssql_commit" ELSE "mssql_insert")
            ELSE /\ txn' = txn
                 /\ server' = server
                 /\ MssqlExcept("mssql_insert")
    /\ UNCHANGED <<cfgVars, secret, credentials, db_name, dbOpen, rows, now, provisioned,
                   sshVars, warnings, dispatched>>

\* conn.commit() after the loop.
MssqlCommit ==
    /\ pc = "mssql_commit"
    /\ log' = Append(log, Ev("commit", 0))
    /\ \E ok \in BOOLEAN :
         IF ok
         THEN /\ server' = [server EXCEPT ![db_name].rows = @ \o txn]
              /\ txn' = <<>>
              /\ Goto("mssql_select")
         ELSE /\ server' = server
              /\ txn' = txn
              /\ MssqlExcept("mssql_commit")
    /\ UNCHANGED <<cfgVars, secret, credentials, db_name, dbOpen, rows, now, provisioned,
                   sshVars, warnings, dispatched>>

\* Step 7: SELECT * and fetchall.
MssqlSelect ==
    /\ pc = "mssql_select"
    /\ \E ok \in BOOLEAN :
         IF ok
         THEN /\ rows' = server[db_name].rows \o txn
              /\ log' = Append(log, Ev("select", Len(rows')))
              /\ Goto("mssql_close")
         ELSE /\ rows' = rows
              /\ log' = Append(log, Ev("select", -1))
              /\ MssqlExcept("mssql_select")
    /\ UNCHANGED <<cfgVars, secret, credentials, db_name, dbOpen, txn, now, server, provisioned,
                   sshVars, warnings, dispatched>>

\* conn.close(); the stage returns to run.
MssqlClose ==
    /\ pc = "mssql_close"
    /\ dbOpen' = dbOpen - 1
    /\ provisioned' = server
    /\ secret' = NoSecret
    /\ Goto("ssh_keycheck")
    /\ UNCHANGED <<cfgVars, credentials, db_name, txn, rows, now, server,
                   sshVars, warnings, log, dispatched>>

----------------------------------------------------------------------------
(* 2. SSH operations *)

\* The five commands, in the order of the code: hostname -I, hostname -f,
\* uname -a, cat /etc/os-release | grep PRETTY_NAME, uptime.
SshCommands == 1..5

\* Variant of SshWarned: every command's empty output is warned about.
SshWarned_all == SshCommands

\* The commands whose empty output is answered with logger.warning
\* (hostname -I and hostname -f; the loop over the other three logs output only).
SshWarned == {1, 2}

\* _perform_ssh_operations: except Exception -> logger.error, raise.
SshExcept(step) == failed' = step /\ RunExcept

\* Variant of SshKeyCheck: the key file is not looked at.
SshKeyCheck_noCheck ==
    /\ pc = "ssh_keycheck"
    /\ Goto("ssh_connect")
    /\ UNCHANGED <<cfgVars, sqlVars, sshVars, warnings, log, dispatched>>

\* Step 1: os.path.isfile(ssh_key_path), FileNotFoundError otherwise.
SshKeyCheck ==
    /\ pc = "ssh_keycheck"
    /\ IF keyFile THEN Goto("ssh_connect") ELSE SshExcept("ssh_keycheck")
    /\ UNCHANGED <<cfgVars, sqlVars, sshVars, warnings, log, dispatched>>

\* Step 2: SSHClient().connect(..., timeout=10).
SshConnect ==
    /\ pc = "ssh_connect"
    /\ log' = Append(log, Ev("ssh_connect", 0))
    /\ \E ok \in BOOLEAN :
         IF ok
         THEN ssh_client' = "open" /\ Goto("ssh_exec")
         ELSE ssh_client' = ssh_client /\ SshExcept("ssh_connect")
    /\ UNCHANGED <<cfgVars, sqlVars, sshEmpty, warnings, dispatched>>

\* Variant of SshExec: an empty output is raised as an error.
SshExec_abortOnEmpty ==
    /\ pc = "ssh_exec"
    /\ LET cmd == CountEv(log, "ssh_cmd") + 1 IN
       /\ log' = Append(log, Ev("ssh_cmd", cmd))
       /\ \E out \in {"output", "empty", "raise"} :
            IF out = "raise"
            THEN /\ SshExcept("ssh_exec")
                 /\ UNCHANGED <<sshEmpty, warnings>>
            ELSE /\ sshEmpty' = sshEmpty + (IF out = "empty" THEN 1 ELSE 0)
                 /\ warnings' = warnings
                 /\ IF out = "empty"
                    THEN SshExcept("ssh_exec")
                    ELSE Goto(IF cmd = Cardinality(SshCommands) THEN "ssh_close" ELSE "ssh_exec")
    /\ UNCHANGED <<cfgVars, sqlVars, ssh_client, dispatched>>

\* Steps 3 to 5, one command: exec_command and stdout.read().  The call may
\* raise; otherwise its output is empty or not.
SshExec ==
    /\ pc = "ssh_exec"
    /\ LET cmd == CountEv(log, "ssh_cmd") + 1 IN
       /\ log' = Append(log, Ev("ssh_cmd", cmd))
       /\ \E out \in {"output", "empty", "raise"} :
            IF out = "raise"
            THEN /\ SshExcept("ssh_exec")
                 /\ UNCHANGED <<sshEmpty, warnings>>
            ELSE /\ sshEmpty' = sshEmpty + (IF out = "empty" THEN 1 ELSE 0)
                 /\ warnings' = [warnings EXCEPT
                        !.ssh = @ + (IF out = "empty" /\ cmd \in SshWarned THEN 1 ELSE 0)]
                 /\ Goto(IF cmd = Cardinality(SshCommands) THEN "ssh_close" ELSE "ssh_exec")
    /\ UNCHANGED <<cfgVars, sqlVars, ssh_client, dispatched>>

\* ssh_client.close(); the stage returns to run.
SshClose ==
    /\ pc = "ssh_close"
    /\ ssh_client' = "closed"
    /\ Goto("guard")
    /\ UNCHANGED <<cfgVars, sqlVars, sshEmpty, warnings, log, dispatched>>

----------------------------------------------------------------------------
(* 3. WinRM operations *)

\* Variant of RunGuard: with the flag seen the WinRM stage is entered at its
\* probes and ends after them.
RunGuard_probeOnly ==
    /\ pc = "guard"
    /\ IF ~prevent_winrm_recursion
       THEN Goto("winrm_session")
       ELSE Goto("winrm_probe")
    /\ UNCHANGED <<cfgVars, sqlVars, sshVars, warnings, log, dispatched>>

\* Variant of RunGuard: the WinRM stage is entered whatever the flag.
RunGuard_noCheck ==
    /\ pc = "guard"
    /\ Goto("winrm_session")
    /\ UNCHANGED <<cfgVars, sqlVars, sshVars, warnings, log, dispatched>>

\* run: the WinRM stage is entered unless the recursion flag was seen;
\* otherwise the run is complete.
RunGuard ==
    /\ pc = "guard"
    /\ IF ~prevent_winrm_recursion
       THEN Goto("winrm_session")
       ELSE RunSuccess
    /\ UNCHANGED <<cfgVars, sqlVars, sshVars, warnings, log, dispatched>>

\* _perform_winrm_operations: except Exception -> logger.error, raise.
WinrmExcept(step) == failed' = step /\ RunExcept

\* Step 1: winrm.Session(...); no remote call is made yet.
WinrmSession ==
    /\ pc = "winrm_session"
    /\ \E ok \in BOOLEAN :
         IF ok THEN Goto("winrm_probe") ELSE WinrmExcept("winrm_session")
    /\ UNCHANGED <<cfgVars, sqlVars, sshVars, warnings, log, dispatched>>

\* The two introspection commands: ipconfig | findstr, echo %USERDOMAIN%.
ProbeCommands == 1..2

\* Variant of WinrmProbe: a non-zero status_code is raised as an error.
WinrmProbe_abortOnNonzero ==
    /\ pc = "winrm_probe"
    /\ LET cmd == CountEv(log, "probe") + 1 IN
       /\ log' = Append(log, Ev("probe", cmd))
       /\ \E out \in {"zero", "nonzero", "raise"} :
            IF out = "raise"
            THEN /\ WinrmExcept("winrm_probe")
                 /\ warnings' = warnings
            ELSE /\ warnings' = [warnings EXCEPT
                        !.winrm = @ + (IF out = "nonzero" THEN 1 ELSE 0)]
                 /\ IF out = "nonzero"
                    THEN WinrmExcept("winrm_probe")
                    ELSE Goto(IF cmd = Cardinality(ProbeCommands) THEN "winrm_dispatch" ELSE "winrm_probe")
    /\ UNCHANGED <<cfgVars, sqlVars, sshVars, dispatched>>

\* Step 3, one command: session.run_ps; a non-zero status_code is warned about.
WinrmProbe ==
    /\ pc = "winrm_probe"
    /\ LET cmd == CountEv(log, "probe") + 1 IN
       /\ log' = Append(log, Ev("probe", cmd))
       /\ \E out \in {"zero", "nonzero", "raise"} :
            IF out = "raise"
            THEN /\ WinrmExcept("winrm_probe")
                 /\ warnings' = warnings
            ELSE /\ warnings' = [warnings EXCEPT
                        !.winrm = @ + (IF out = "nonzero" THEN 1 ELSE 0)]
                 /\ Goto(IF cmd = Cardinality(ProbeCommands) THEN "winrm_dispatch" ELSE "winrm_probe")
    /\ UNCHANGED <<cfgVars, sqlVars, sshVars, dispatched>>

\* Variant of ScriptArgs: the recursion flag is not appended.
ScriptArgs_noFlag(av) == Join(SubSeq(av, 2, Len(av)))

\* script_args: the original arguments joined by blanks, then a blank and
\* the recursion flag.
ScriptArgs(av) == Join(SubSeq(av, 2, Len(av))) \o <<BLANK, RECURSION_FLAG>>

\* Variant of PsScript: the arguments are interpolated twice.
PsScript_argsTwice(script_args) ==
    <<"Write-Host \"Script would be executed with these arguments: ">>
    \o script_args \o <<BLANK>> \o script_args
    \o <<"\" Write-Host \"Recursion prevention active: True (via ">>
    \o <<RECURSION_FLAG>>
    \o <<")\"">>

\* ps_script: the PowerShell text handed to session.run_ps.
PsScript(script_args) ==
    <<"Write-Host \"=== RUNNING PYTHON SCRIPT ON REMOTE SYSTEM (SIMULATION) ===\" Write-Host \"Script would be executed with these arguments: ">>
    \o script_args
    \o <<"\" Write-Host \"Current system: $env:COMPUTERNAME\" Write-Host \"Current user: $env:USERNAME\" Write-Host \"Recursion prevention active: True (via ">>
    \o <<RECURSION_FLAG>>
    \o <<")\" Write-Host \"Script execution completed on remote system\"">>

\* result.status_code of a run_ps call, as the log records it: 0, non-zero
\* (1), or -1 when the call raised and gave no result.
StatusCode(out) == IF out = "zero" THEN 0 ELSE IF out = "nonzero" THEN 1 ELSE -1

\* Variant of WinrmDispatch: a non-zero status_code is logged and not raised.
WinrmDispatch_ignoreStatus ==
    /\ pc = "winrm_dispatch"
    /\ LET script_args == ScriptArgs(argv) IN
         dispatched' = Append(dispatched,
                              [script_args |-> script_args, ps_script |-> PsScript(script_args)])
    /\ \E out \in {"zero", "nonzero", "raise"} :
         /\ log' = Append(log, Ev("dispatch", StatusCode(out)))
         /\ IF out = "raise" THEN WinrmExcept("winrm_dispatch") ELSE RunSuccess
    /\ UNCHANGED <<cfgVars, sqlVars, sshVars, warnings>>

\* Steps 4 and 5: the command is built and run; a non-zero status_code raises
\* RuntimeError; on success the stage returns to run, which is complete.
WinrmDispatch ==
    /\ pc = "winrm_dispatch"
    /\ LET script_args == ScriptArgs(argv) IN
         dispatched' = Append(dispatched,
                              [script_args |-> script_args, ps_script |-> PsScript(script_args)])
    /\ \E out \in {"zero", "nonzero", "raise"} :
         /\ log' = Append(log, Ev("dispatch", StatusCode(out)))
         /\ IF out = "zero" THEN RunSuccess
            ELSE WinrmExcept(IF out = "nonzero" THEN "winrm_dispatch_status" ELSE "winrm_dispatch")
    /\ UNCHANGED <<cfgVars, sqlVars, sshVars, warnings>>

----------------------------------------------------------------------------
(* Process invocations *)

Reset ==
    /\ prevent_winrm_recursion' = FALSE
    /\ pc' = "init"
    /\ exitStatus' = -1
    /\ failed' = "none"
    /\ secret' = NoSecret
    /\ credentials' = <<>>
    /\ db_name' = -1
    /\ dbOpen' = 0
    /\ txn' = <<>>
    /\ rows' = <<>>
    /\ ssh_client' = "none"
    /\ sshEmpty' = 0
    /\ warnings' = [ssh |-> 0, winrm |-> 0]
    /\ log' = <<>>
    /\ runs' = runs + 1
    /\ UNCHANGED <<now, server, provisioned>>

\* The script is started again, by hand, against the same database server.
Restart ==
    /\ pc = "done"
    /\ runs < MaxRuns
    /\ \E av \in CommandLines, kf \in BOOLEAN : argv' = av /\ keyFile' = kf
    /\ dispatched' = <<>>
    /\ Reset

\* The command a Dispatch sent is run on the remote target: a copy of the
\* script starts with the words of script_args as its arguments.
StartCopy ==
    /\ pc = "done"
    /\ runs < MaxRuns
    /\ Len(dispatched) >= runs
    /\ argv' = <<argv[1]>> \o SplitWords(dispatched[runs].script_args, <<>>)
    /\ \E kf \in BOOLEAN : keyFile' = kf
    /\ dispatched' = dispatched
    /\ Reset

Step ==
    \/ Construct
    \/ MssqlGetSecret
    \/ MssqlConnect
    \/ MssqlCreateDb
    \/ MssqlReconnect
    \/ MssqlCreateSchema
    \/ MssqlCreateTable
    \/ MssqlInsert
    \/ MssqlCommit
    \/ MssqlSelect
    \/ MssqlClose
    \/ SshKeyCheck
    \/ SshConnect
    \/ SshExec
    \/ SshClose
    \/ RunGuard
    \/ WinrmSession
    \/ WinrmProbe
    \/ WinrmDispatch

Next == Step \/ Restart

Spec == Init /\ [][Next]_vars

\* A chain of self-invocations: every dispatched command starts a copy.  A
\* started process takes its next step: every call of the script blocks until
\* it returns or raises.
NextChain == Step \/ StartCopy

SpecChain == Init /\ [][NextChain]_vars /\ WF_vars(NextChain)

----------------------------------------------------------------------------
(* Properties *)

MssqlSteps ==
    {"mssql_secret", "mssql_connect", "mssql_createdb", "mssql_reconnect",
     "mssql_schema", "mssql_table", "mssql_insert", "mssql_commit", "mssql_select"}

\* sys.argv[1:] holds the recursion flag as an argument of its own.
FlagInArgs(av) == FlagInArgv(<<<<"">>>> \o Tail(av))

\* The command line with the recursion flag arguments taken out.
ArgsWithoutFlag(av) ==
    <<av[1]>> \o SelectSeq(Tail(av), LAMBDA a : a # <<RECURSION_FLAG>>)

\* run was entered and has ended.
RunEnded == pc = "done" /\ exitStatus \in {0, 1}

\* C1: in an invocation whose recursion guard is active (the flag is in
\* sys.argv), the Dispatch call is never made, in any state of the run.
C1_GuardedNeverDispatches ==
    FlagInArgv(argv) => ~HasEv(log, "dispatch") /\ pc # "winrm_dispatch"

\* A guarded invocation went through both earlier stages and ended.
C1_Witness ==
    /\ FlagInArgv(argv)
    /\ prevent_winrm_recursion
    /\ RunEnded
    /\ CountEv(log, "ssh_cmd") = 5

\* Every dispatched command has started its copy and the last process ended.
ChainEnded == pc = "done" /\ Len(dispatched) < runs

\* C2: when every Dispatch starts a copy of the script with the words of the
\* constructed command as arguments, every copy has the recursion flag in its
\* arguments and makes no Dispatch call, at most one Dispatch is made in the
\* whole chain, and the chain ends.
C2_ChainBounded ==
    /\ [](/\ Len(dispatched) <= 1
          /\ runs > 1 => /\ FlagInArgv(argv)
                         /\ ~HasEv(log, "dispatch")
                         /\ pc # "winrm_dispatch")
    /\ <>[]ChainEnded

\* A copy was started by the one Dispatch of the chain and has ended.
C2_Witness ==
    /\ runs = 2
    /\ Len(dispatched) = 1
    /\ FlagInArgv(argv)
    /\ pc = "done"

\* An unguarded run in which neither provisioning nor shell inspection nor
\* the bridge connection failed has ended.
UnguardedRunPastProbe ==
    /\ RunEnded
    /\ ~FlagInArgv(argv)
    /\ failed \in {"none", "winrm_dispatch", "winrm_dispatch_status"}

\* C3 as stated: in such a run exactly one Dispatch call is made and the
\* text passed to it contains the recursion flag exactly once.
C3_FlagExactlyOnce ==
    UnguardedRunPastProbe =>
        /\ CountEv(log, "dispatch") = 1
        /\ Len(dispatched) = 1
        /\ CountFlag(dispatched[1].ps_script) = 1

\* C3 amended: in such a run exactly one Dispatch call is made; the argument
\* text built for it ends with the recursion flag and contains it once more
\* than the original arguments do, and the text passed to the call contains
\* it once more again (it names the flag in a line of its own): two
\* occurrences when no original argument contains the flag text.
C3_FlagAppendedOnce ==
    UnguardedRunPastProbe =>
        /\ CountEv(log, "dispatch") = 1
        /\ Len(dispatched) = 1
        /\ LET original == Join(Tail(argv))
               built == dispatched[1].script_args
               passed == dispatched[1].ps_script
           IN  /\ built[Len(built)] = RECURSION_FLAG
               /\ CountFlag(built) = CountFlag(original) + 1
               /\ CountFlag(passed) = CountFlag(original) + 2

\* An unguarded run made its Dispatch call and succeeded; an argument value
\* held the flag text, so the passed text holds it three times.
C3_Witness ==
    /\ UnguardedRunPastProbe
    /\ exitStatus = 0
    /\ CountFlag(dispatched[1].ps_script) = 3

\* C4: an invocation started with the recursion flag among its arguments
\* (and a command line that is valid otherwise), in which no stage fails,
\* performs provisioning, then shell inspection, no bridge call, and ends
\* with status 0.
C4_GuardedRunSucceeds ==
    (/\ pc = "done"
     /\ FlagInArgs(argv)
     /\ ParseArgs(ArgsWithoutFlag(argv))
     /\ failed = "none")
    => /\ exitStatus = 0
       /\ HasEv(log, "select")
       /\ CountEv(log, "ssh_cmd") = 5
       /\ ~HasEv(log, "probe")
       /\ ~HasEv(log, "dispatch")

\* C5: once a step of the provisioning stage has failed, no shell connection
\* is opened, no shell command is run and no bridge call is made in that run.
C5_ProvisioningFailFast ==
    failed \in MssqlSteps =>
        /\ pc = "done"
        /\ ssh_client = "none"
        /\ ~HasEv(log, "ssh_connect")
        /\ ~HasEv(log, "ssh_cmd")
        /\ ~HasEv(log, "probe")
        /\ ~HasEv(log, "dispatch")

\* The insert of the second sample row failed and the run has ended.
C5_Witness ==
    /\ failed = "mssql_insert"
    /\ Len(txn) = 1
    /\ pc = "done"

\* The events the end-to-end scenario names, in the order they happened.
Observable(l) ==
    SelectSeq(l, LAMBDA e : e.ev \in {"secret", "select", "ssh_cmd", "probe", "dispatch"})

EndToEnd ==
    << Ev("secret", 0), Ev("select", 3),
       Ev("ssh_cmd", 1), Ev("ssh_cmd", 2), Ev("ssh_cmd", 3), Ev("ssh_cmd", 4), Ev("ssh_cmd", 5),
       Ev("probe", 1), Ev("probe", 2), Ev("dispatch", 0) >>

\* C6: an unguarded run in which no remote operation fails makes, in this
\* order, one secret lookup, one provisioning that reads back three rows,
\* five shell commands, two Probe calls and one Dispatch, and exits with 0.
C6_EndToEndOrder ==
    (RunEnded /\ ~FlagInArgv(argv) /\ failed = "none")
    => Observable(log) = EndToEnd /\ exitStatus = 0

\* The shell stage has been left although the key file does not exist.
KeyMissingPastCheck ==
    /\ ~keyFile
    /\ \/ pc \in {"ssh_connect", "ssh_exec", "ssh_close", "guard",
                  "winrm_session", "winrm_probe", "winrm_dispatch"}
       \/ RunEnded /\ failed \notin MssqlSteps

\* C7: with the key file missing, the shell stage fails before a shell
\* connection is opened or a command is run, the provisioned objects stay as
\* the provisioning stage left them, no bridge call is made and the process
\* exits non-zero.
C7_KeyFileMissing ==
    KeyMissingPastCheck =>
        /\ pc = "done"
        /\ failed = "ssh_keycheck"
        /\ exitStatus = 1
        /\ ssh_client = "none"
        /\ ~HasEv(log, "ssh_connect")
        /\ ~HasEv(log, "ssh_cmd")
        /\ ~HasEv(log, "probe")
        /\ ~HasEv(log, "dispatch")
        /\ server = provisioned

\* The key check failed after a provisioning that committed its rows.
C7_Witness ==
    /\ ~keyFile
    /\ failed = "ssh_keycheck"
    /\ pc = "done"
    /\ Len(server[db_name].rows) >= 3

\* Every stage the run was due to execute went through.
StagesCompleted ==
    /\ HasEv(log, "select")
    /\ dbOpen = 0
    /\ CountEv(log, "ssh_cmd") = 5
    /\ ssh_client = "closed"
    /\ prevent_winrm_recursion \/ (CountEv(log, "probe") = 2 /\ HasEv(log, "dispatch"))

\* C8: a run in which a stage failed ends with a non-zero status, and a
\* status of zero is reached only with every due stage completed.
C8_ExitStatus ==
    pc = "done" =>
        /\ exitStatus \in {0, 1, 2}
        /\ failed # "none" => exitStatus # 0
        /\ exitStatus = 0 => failed = "none" /\ StagesCompleted

\* A shell command raised and the process ended with status 1.
C8_Witness ==
    /\ pc = "done"
    /\ failed = "ssh_exec"
    /\ exitStatus = 1

\* C9: the shell session is closed on every exit path of the shell stage:
\* outside the stage no session is open.
C9_SshSessionClosed ==
    ssh_client = "open" => pc \in {"ssh_exec", "ssh_close"}

\* C10: every database connection the provisioning stage opened is closed
\* when the stage has ended, by success or by failure.
C10_DbConnectionsClosed ==
    dbOpen > 0 =>
        pc \in {"mssql_createdb", "mssql_reconnect", "mssql_schema", "mssql_table",
                "mssql_insert", "mssql_commit", "mssql_select", "mssql_close"}

\* The shell commands run so far are the first ones of the battery, in order.
SshInOrder ==
    LET cmds == SelectSeq(log, LAMBDA e : e.ev = "ssh_cmd")
    IN  \A i \in 1..Len(cmds) : cmds[i].n = i

\* C11: once the shell session is established the five commands run in their
\* fixed order; a command that returns empty output is followed by the next
\* command (or by the close) and aborts neither the stage nor the run, so a
\* stage that no raised error ended has run all five.
C11_ShellFailSoft ==
    /\ [](/\ SshInOrder
          /\ (ssh_client # "none" /\ pc # "ssh_exec" /\ failed # "ssh_exec")
                => CountEv(log, "ssh_cmd") = Cardinality(SshCommands))
    /\ [][sshEmpty' = sshEmpty + 1
            => /\ pc' = (IF CountEv(log, "ssh_cmd") + 1 = Cardinality(SshCommands)
                         THEN "ssh_close" ELSE "ssh_exec")
               /\ failed' = failed
               /\ exitStatus' = exitStatus]_vars

\* All five commands returned empty output and the run still succeeded.
C11_Witness ==
    /\ sshEmpty = 5
    /\ CountEv(log, "ssh_cmd") = 5
    /\ ssh_client = "closed"
    /\ pc = "done"
    /\ exitStatus = 0

\* The bridge calls made so far, in order.
BridgeCalls == SelectSeq(log, LAMBDA e : e.ev \in {"probe", "dispatch"})

\* C12: a Probe command that returns a non-zero status is followed by the
\* next Probe command or by Dispatch and changes neither the outcome nor the
\* exit status of the run; whenever Dispatch is called, both Probe commands
\* were called before it, in their fixed order.
C12_ProbeFailSoft ==
    /\ [](/\ \A i \in 1..Len(BridgeCalls) :
                BridgeCalls[i].ev = (IF i <= Cardinality(ProbeCommands) THEN "probe" ELSE "dispatch")
          /\ \A i \in 1..Len(BridgeCalls) :
                BridgeCalls[i].ev = "probe" => BridgeCalls[i].n = i
          /\ pc = "winrm_dispatch" => CountEv(log, "probe") = Cardinality(ProbeCommands))
    /\ [][warnings'.winrm = warnings.winrm + 1
            => /\ pc' = (IF CountEv(log, "probe") + 1 = Cardinality(ProbeCommands)
                         THEN "winrm_dispatch" ELSE "winrm_probe")
               /\ failed' = failed
               /\ exitStatus' = exitStatus]_vars

\* Both Probe commands returned a non-zero status; Dispatch was made and the
\* run ended with status 0.
C12_Witness ==
    /\ warnings.winrm = 2
    /\ HasEv(log, "dispatch")
    /\ pc = "done"
    /\ exitStatus = 0

\* The Dispatch call returned a non-zero status.
DispatchStatusNonZero == \E i \in 1..Len(log) : log[i].ev = "dispatch" /\ log[i].n > 0

\* C13: a Dispatch that returns a non-zero status is fatal: the bridge stage
\* raises, the run is aborted and the process exits non-zero, never with 0.
C13_DispatchFatal ==
    DispatchStatusNonZero =>
        /\ pc = "done"
        /\ failed = "winrm_dispatch_status"
        /\ exitStatus = 1

\* Dispatch returned a non-zero status after two clean Probe commands.
C13_Witness ==
    /\ DispatchStatusNonZero
    /\ warnings.winrm = 0
    /\ pc = "done"

\* The secret is a structured record that holds both fields.
BothFields(resp) ==
    resp.kind = "object" /\ {"username", "password"} \subseteq DOMAIN resp.data

\* C14: for a secret holding both the username and the password field, the
\* database login uses exactly those two values; for a secret missing
\* either field, or one that is no structured record, the lookup fails and no
\* database connection is attempted.
C14_SecretResolution ==
    /\ (secret.kind # "none" /\ BothFields(secret))
          => /\ credentials = <<secret.data["username"], secret.data["password"]>>
             /\ failed # "mssql_secret"
    /\ (secret.kind # "none" /\ ~BothFields(secret))
          => /\ failed = "mssql_secret"
             /\ pc = "done"
             /\ credentials = <<>>
             /\ dbOpen = 0
             /\ ~HasEv(log, "db_connect")
    /\ HasEv(log, "db_connect") => credentials = <<"sa", "pw1">>

\* Both connections were made with the two values of a secret that also
\* holds a third field.
C14_Witness ==
    /\ BothFields(secret)
    /\ "host" \in DOMAIN secret.data
    /\ CountEv(log, "db_connect") = 2
    /\ credentials = <<"sa", "pw1">>

\* C15: two executions of the provisioning sequence against the same server
\* generate distinct database names: the name an execution generates is not
\* the name of a database an earlier execution created.
C15_DistinctDbNames ==
    [][pc = "mssql_createdb" /\ pc' # pc => ~server[db_name'].exists]_vars

\* C16: in every successful provisioning run, also one that follows earlier
\* runs against the same server, the read-back is exactly the three sample
\* rows of that run, in insertion order, with strictly increasing identity
\* values.
C16_RoundTrip ==
    rows # <<>> =>
        /\ Len(rows) = Cardinality(SampleItems)
        /\ \A i \in 1..Len(rows) : rows[i].item = i
        /\ \A i, j \in 1..Len(rows) : i < j => rows[i].id < rows[j].id

\* A guarded run in which no stage failed has ended.
GuardedRunEnded == FlagInArgv(argv) /\ RunEnded /\ failed = "none"

\* C17 as stated: with the recursion guard active the bridge still performs
\* its two Probe commands and then ends; only Dispatch is skipped.
C17_GuardedProbeOnly ==
    GuardedRunEnded => CountEv(log, "probe") = Cardinality(ProbeCommands) /\ ~HasEv(log, "dispatch")

\* C17 amended: with the recursion guard active the whole bridge stage is
\* skipped: no session is set up, neither Probe command nor Dispatch is
\* called, and a run in which provisioning and shell inspection did not fail
\* ends with status 0 right after shell inspection.
C17_GuardedSkipsBridge ==
    FlagInArgv(argv) =>
        /\ pc \notin {"winrm_session", "winrm_probe", "winrm_dispatch"}
        /\ ~HasEv(log, "probe")
        /\ ~HasEv(log, "dispatch")
        /\ warnings.winrm = 0
        /\ (RunEnded /\ failed = "none") => (exitStatus = 0 /\ ssh_client = "closed")

\* A guarded run ended with status 0 and made no bridge call.
C17_Witness ==
    /\ GuardedRunEnded
    /\ exitStatus = 0
    /\ BridgeCalls = <<>>
    /\ CountEv(log, "ssh_cmd") = 5

MssqlCalls ==
    SelectSeq(log, LAMBDA e : e.ev \in {"db_connect", "create_db", "create_schema",
                                        "create_table", "insert", "commit", "select"})

\* The calls of a complete provisioning, and the step each belongs to.
ProvisionOrder ==
    << "db_connect", "create_db", "db_connect", "create_schema", "create_table",
       "insert", "insert", "insert", "commit", "select" >>

ProvisionSteps ==
    << "mssql_connect", "mssql_createdb", "mssql_reconnect", "mssql_schema", "mssql_table",
       "mssql_insert", "mssql_insert", "mssql_insert", "mssql_commit", "mssql_select" >>

\* C19: the provisioning steps run in strict order (connect, create
\* database, reconnect, create schema, create table, three inserts, select,
\* close); a step starts only after every earlier one succeeded, and the step
\* that failed is the last one of the run.
C19_StrictOrder ==
    /\ Len(MssqlCalls) <= Len(ProvisionOrder)
    /\ \A i \in 1..Len(MssqlCalls) : MssqlCalls[i].ev = ProvisionOrder[i]
    /\ HasEv(log, "db_connect") => secret.kind = "none" \/ SecretOk(secret)
    /\ HasEv(log, "create_schema") => server[db_name].exists
    /\ HasEv(log, "create_table") => server[db_name].schema
    /\ HasEv(log, "insert") => server[db_name].table
    /\ HasEv(log, "commit") => (Len(txn) = 3 \/ Len(server[db_name].rows) >= 3)
    /\ HasEv(log, "select") => (txn = <<>> /\ Len(server[db_name].rows) >= 3)
    /\ pc \in {"mssql_schema", "mssql_table", "mssql_insert", "mssql_commit",
               "mssql_select", "mssql_close"} => dbOpen = 1
    /\ failed = "mssql_secret" => (pc = "done" /\ MssqlCalls = <<>>)
    /\ failed \in MssqlSteps \ {"mssql_secret"}
          => (pc = "done" /\ ProvisionSteps[Len(MssqlCalls)] = failed)

\* The creation of the table failed after four calls that succeeded; no
\* insert was made.
C19_Witness ==
    /\ failed = "mssql_table"
    /\ Len(MssqlCalls) = 5
    /\ server[db_name].schema
    /\ ~HasEv(log, "insert")

\* The row is among the committed rows of the run's table.
Committed(row) ==
    \E j \in 1..Len(server[db_name].rows) : server[db_name].rows[j] = row

\* C20: every statement of the provisioning stage is committed before the
\* next one runs, so the rows inserted before a failing insert are already
\* committed in the table.
C20_CommittedIndependently ==
    \A i \in 1..Len(txn) : Committed(txn[i])

\* C20, amended: the schema and the table are committed before the next
\* statement runs, and the inserts are committed together by the one commit
\* after the loop; when the k-th insert fails, the k-1 rows inserted before
\* it are not committed in the table.
C20_InsertsCommittedTogether ==
    /\ HasEv(log, "create_table") => server[db_name].schema
    /\ HasEv(log, "insert") => server[db_name].table
    /\ \A i \in 1..Len(txn) : ~Committed(txn[i])
    /\ pc = "mssql_insert" => Len(txn) = CountEv(log, "insert")
    /\ failed = "mssql_insert" => Len(txn) = CountEv(log, "insert") - 1
    /\ HasEv(log, "select") => (txn = <<>> /\ Len(server[db_name].rows) >= Cardinality(SampleItems))

\* The third insert failed: the two rows inserted before it are left
\* uncommitted.
C20_Witness ==
    /\ failed = "mssql_insert"
    /\ CountEv(log, "insert") = 3
    /\ Len(txn) = 2
    /\ \A i \in 1..2 : ~Committed(txn[i])

\* C21: at most one database connection is open at any moment of a run; the
\* server-level connection is closed before the connection selecting the new
\* database is opened, so a failed reconnect leaves no connection open.
C21_AtMostOneConnection ==
    /\ dbOpen \in {0, 1}
    /\ pc \in {"mssql_createdb", "mssql_reconnect"} => dbOpen = 1
    /\ pc = "mssql_schema" => dbOpen = 1
    /\ failed = "mssql_reconnect" => dbOpen = 0

\* The database was created over the first connection and the reconnect
\* failed: no connection is open.
C21_Witness ==
    /\ failed = "mssql_reconnect"
    /\ CountEv(log, "db_connect") = 2
    /\ server[db_name].exists
    /\ dbOpen = 0

====
